---- MODULE Spec2Model ----
(***************************************************************************)
(* State-machine model of three pieces of react-native-ui-lib:             *)
(*   - the Tour component (typings/components/tour/index.js),               *)
(*   - the Colors.alpha utility (src/style/colors.js),                      *)
(*   - Card.calcImagePosition / Card.renderChildren                         *)
(*     (src/components/card/index.js).                                      *)
(* An absent JavaScript value (undefined) is the empty sequence << >>, a    *)
(* present value v is the one-element sequence <<v>>.  JavaScript strings   *)
(* that are built character by character are sequences of one-character     *)
(* strings.                                                                 *)
(***************************************************************************)
EXTENDS Integers, Sequences, FiniteSets, TLC

VARIABLES
    lifecycle,            \* Tour: "constructed" | "mounted" | "failed" | "unmounted"
    visible,              \* Tour: this.props.visible
    children,             \* Tour: this.props.children (sequence of elements)
    targetPosition,       \* Tour: this.state.targetPosition, << >> when undefined
    pending,              \* Tour: measureInWindow requests whose callback has not fired
    tree,                 \* Tour: output of the latest render()
    lastMeasure,          \* history: arguments of the latest measurement callback
    togglesSinceMeasure,  \* history: visible changes since the latest callback (saturating)
    repeatedMeasure,      \* history: the latest callback repeated the arguments of the one before
    color,                \* Colors.alpha: argument color
    opacity,              \* Colors.alpha: argument opacity
    alphaResult,          \* Colors.alpha: returned value, << >> before the call
    row,                  \* Card: this.props.row
    borderRadius,         \* Card: this.props.borderRadius
    cardChildren,         \* Card: this.props.children (sequence of element types)
    childIndex,           \* Card: argument of the latest calcImagePosition call
    position,             \* Card: value returned by the latest calcImagePosition call
    renderedChildren      \* Card: value returned by the latest renderChildren call

tourVars == <<lifecycle, visible, children, targetPosition, pending, tree,
              lastMeasure, togglesSinceMeasure, repeatedMeasure>>
colorVars == <<color, opacity, alphaResult>>
cardVars == <<row, borderRadius, cardChildren, childIndex, position, renderedChildren>>
vars == <<lifecycle, visible, children, targetPosition, pending, tree,
          lastMeasure, togglesSinceMeasure, repeatedMeasure, color, opacity, alphaResult,
          row, borderRadius, cardChildren, childIndex, position, renderedChildren>>

----------------------------------------------------------------------------
(* Bounds *)

MaxChildren == 2
MaxPending == 2
MaxToggles == 2
MaxCardChildren == 4
OpacityDen == 20
OpacityOver == 3

(* Input domains *)

Elements == {"a", "b"}
Lefts == {0, 10}
Tops == {0, 20}
Widths == {0, 100}
Heights == {0, 50}

SeqsUpTo(S, n) == UNION {[1..k -> S] : k \in 0..n}

Min(a, b) == IF a < b THEN a ELSE b

----------------------------------------------------------------------------
(* Tour *)

\* Constants.screenWidth, a value of the host device kept symbolic
screenWidth == "Constants.screenWidth"

\* variant: the glow is inset by 4 instead of outset
glowWrapperInset == [top |-> 4, left |-> 4, right |-> 4, bottom |-> 4]

glowWrapper == [top |-> -4, left |-> -4, right |-> -4, bottom |-> -4]

isUndefined(v) == v = << >>

\* the state object built by the measureInWindow callback
measuredPosition(x, y, width, height) ==
    [left |-> x, top |-> y, width |-> width, height |-> height]

\* variant: only an empty children list is rejected
childrenOnlyThrowsOnNone(ch) == Len(ch) = 0

\* React.Children.only: throws unless there is exactly one child
childrenOnlyThrows(ch) == Len(ch) # 1

renderTarget(ch) == [element |-> ch[1], onLayout |-> "onTargetLayout", ref |-> "target"]

\* the clone of the measured target, laid out at the target's measured size
renderTargetClone(ch, tp) == [element |-> ch[1], width |-> tp.width, height |-> tp.height]

\* variant: the message is anchored below the target's screen position
renderMessageBelowTarget(tp) == [bottom |-> tp.top + tp.height, width |-> screenWidth]

renderMessage(tp) == [bottom |-> tp.height, width |-> screenWidth]

\* variant: the visible prop is ignored
shouldShowTourIgnoringVisible(vis, tp) == ~isUndefined(tp)

shouldShowTour(vis, tp) == vis /\ ~isUndefined(tp)

ErrorTree ==
    [error |-> "InvalidChildCount", target |-> << >>, modalVisible |-> FALSE, overlay |-> << >>]

NoTree == [error |-> "none", target |-> << >>, modalVisible |-> FALSE, overlay |-> << >>]

render(vis, ch, tp) ==
    IF childrenOnlyThrows(ch)
    THEN ErrorTree
    ELSE [error |-> "none",
          target |-> <<renderTarget(ch)>>,
          modalVisible |-> shouldShowTour(vis, tp),
          overlay |-> IF shouldShowTour(vis, tp)
                      THEN <<[top |-> tp[1].top,
                              left |-> tp[1].left,
                              glowWrapper |-> glowWrapper,
                              clone |-> renderTargetClone(ch, tp[1]),
                              message |-> renderMessage(tp[1])]>>
                      ELSE << >>]

\* screen rectangle of the absolutely positioned glow view inside the
\* overlay container o, whose size is that of its only in-flow child, the clone
GlowRect(o) ==
    [left |-> o.left + o.glowWrapper.left,
     top |-> o.top + o.glowWrapper.top,
     right |-> o.left + o.clone.width - o.glowWrapper.right,
     bottom |-> o.top + o.clone.height - o.glowWrapper.bottom]

TourInit ==
    /\ lifecycle = "constructed"
    /\ visible \in BOOLEAN
    /\ children \in SeqsUpTo(Elements, MaxChildren)
    /\ targetPosition = << >>
    /\ pending = 0
    /\ tree = NoTree
    /\ lastMeasure = << >>
    /\ togglesSinceMeasure = 0
    /\ repeatedMeasure = FALSE

\* first render of the constructed component
Mount ==
    /\ lifecycle = "constructed"
    /\ tree' = render(visible, children, targetPosition)
    /\ lifecycle' = IF childrenOnlyThrows(children) THEN "failed" ELSE "mounted"
    /\ UNCHANGED <<visible, children, targetPosition, pending, lastMeasure,
                   togglesSinceMeasure, repeatedMeasure>>
    /\ UNCHANGED <<colorVars, cardVars>>

\* variant: hiding the tour drops the stored measurement
SetVisibleForgetting(v) ==
    /\ lifecycle = "mounted"
    /\ visible' = v
    /\ targetPosition' = IF v THEN targetPosition ELSE << >>
    /\ tree' = render(v, children, targetPosition')
    /\ togglesSinceMeasure' =
          IF v # visible THEN Min(togglesSinceMeasure + 1, MaxToggles)
          ELSE togglesSinceMeasure
    /\ UNCHANGED <<lifecycle, children, pending, lastMeasure, repeatedMeasure>>
    /\ UNCHANGED <<colorVars, cardVars>>

\* the parent re-renders the Tour with a new value of the visible prop
SetVisible(v) ==
    /\ lifecycle = "mounted"
    /\ visible' = v
    /\ tree' = render(v, children, targetPosition)
    /\ togglesSinceMeasure' =
          IF v # visible THEN Min(togglesSinceMeasure + 1, MaxToggles)
          ELSE togglesSinceMeasure
    /\ UNCHANGED <<lifecycle, children, targetPosition, pending, lastMeasure,
                   repeatedMeasure>>
    /\ UNCHANGED <<colorVars, cardVars>>

\* onLayout of the target: requests a measurement
onTargetLayout ==
    /\ lifecycle = "mounted"
    /\ pending < MaxPending
    /\ pending' = pending + 1
    /\ UNCHANGED <<lifecycle, visible, children, targetPosition, tree, lastMeasure,
                   togglesSinceMeasure, repeatedMeasure>>
    /\ UNCHANGED <<colorVars, cardVars>>

\* variant: only the first measurement is stored
MeasureCallbackOnce(x, y, width, height) ==
    /\ lifecycle = "mounted"
    /\ pending > 0
    /\ pending' = pending - 1
    /\ targetPosition' = IF isUndefined(targetPosition)
                         THEN <<measuredPosition(x, y, width, height)>>
                         ELSE targetPosition
    /\ tree' = render(visible, children, targetPosition')
    /\ lastMeasure' = <<<<x, y, width, height>>>>
    /\ togglesSinceMeasure' = 0
    /\ repeatedMeasure' = (lastMeasure = <<<<x, y, width, height>>>>)
    /\ UNCHANGED <<lifecycle, visible, children>>
    /\ UNCHANGED <<colorVars, cardVars>>

\* variant: a later measurement is added to the stored offsets
MeasureCallbackAccumulating(x, y, width, height) ==
    /\ lifecycle = "mounted"
    /\ pending > 0
    /\ pending' = pending - 1
    /\ targetPosition' =
          IF isUndefined(targetPosition)
          THEN <<measuredPosition(x, y, width, height)>>
          ELSE <<measuredPosition(targetPosition[1].left + x, targetPosition[1].top + y,
                                  width, height)>>
    /\ tree' = render(visible, children, targetPosition')
    /\ lastMeasure' = <<<<x, y, width, height>>>>
    /\ togglesSinceMeasure' = 0
    /\ repeatedMeasure' = (lastMeasure = <<<<x, y, width, height>>>>)
    /\ UNCHANGED <<lifecycle, visible, children>>
    /\ UNCHANGED <<colorVars, cardVars>>

\* the measureInWindow callback fires on a mounted component: setState + re-render
MeasureCallback(x, y, width, height) ==
    /\ lifecycle = "mounted"
    /\ pending > 0
    /\ pending' = pending - 1
    /\ targetPosition' = <<measuredPosition(x, y, width, height)>>
    /\ tree' = render(visible, children, targetPosition')
    /\ lastMeasure' = <<<<x, y, width, height>>>>
    /\ togglesSinceMeasure' = 0
    /\ repeatedMeasure' = (lastMeasure = <<<<x, y, width, height>>>>)
    /\ UNCHANGED <<lifecycle, visible, children>>
    /\ UNCHANGED <<colorVars, cardVars>>

\* the callback fires after the unmount: the code calls setState unguarded, and
\* whether the update is applied to the dead instance is left to the framework
LateMeasureCallback(x, y, width, height) ==
    /\ lifecycle = "unmounted"
    /\ pending > 0
    /\ pending' = pending - 1
    /\ targetPosition' \in {targetPosition, <<measuredPosition(x, y, width, height)>>}
    /\ lastMeasure' = <<<<x, y, width, height>>>>
    /\ togglesSinceMeasure' = 0
    /\ repeatedMeasure' = (lastMeasure = <<<<x, y, width, height>>>>)
    /\ UNCHANGED <<lifecycle, visible, children, tree>>
    /\ UNCHANGED <<colorVars, cardVars>>

Unmount ==
    /\ lifecycle = "mounted"
    /\ lifecycle' = "unmounted"
    /\ tree' = NoTree
    /\ UNCHANGED <<visible, children, targetPosition, pending, lastMeasure,
                   togglesSinceMeasure, repeatedMeasure>>
    /\ UNCHANGED <<colorVars, cardVars>>

TourIdle ==
    /\ lifecycle = "constructed"
    /\ visible = FALSE
    /\ children = <<"a">>
    /\ targetPosition = << >>
    /\ pending = 0
    /\ tree = NoTree
    /\ lastMeasure = << >>
    /\ togglesSinceMeasure = 0
    /\ repeatedMeasure = FALSE

----------------------------------------------------------------------------
(* Colors.alpha.  A numeric opacity is the rational num / OpacityDen. *)

white == <<"#", "f", "f", "f", "f", "f", "f">>
black == <<"#", "0", "0", "0", "0", "0", "0">>
blue70 == <<"#", "D", "3", "E", "D", "F", "F">>

ColorInputs == {white, black, blue70}

OpacityInputs ==
    {[kind |-> "number", num |-> n] : n \in (0 - OpacityOver)..(OpacityDen + OpacityOver)}
        \cup {[kind |-> "NaN", num |-> 0], [kind |-> "undefined", num |-> 0]}

HexDigits == <<"0", "1", "2", "3", "4", "5", "6", "7", "8", "9", "a", "b", "c", "d", "e", "f">>

\* Math.round(opacity * 255): nearest integer, halves rounded up
roundAlpha(num) == (2 * 255 * num + OpacityDen) \div (2 * OpacityDen)

\* BaseConvert.decToHex: the hexadecimal digits of n, no padding
RECURSIVE decToHex(_)
decToHex(n) ==
    IF n < 16 THEN <<HexDigits[n + 1]>>
    ELSE decToHex(n \div 16) \o <<HexDigits[(n % 16) + 1]>>

\* String(`00${alpha}`).slice(-2)
padSlice(hex) ==
    LET padded == <<"0", "0">> \o hex
    IN SubSeq(padded, Len(padded) - 1, Len(padded))

\* the default parameter value: opacity = 1
defaultOpacity(op) ==
    IF op.kind = "undefined" THEN [kind |-> "number", num |-> OpacityDen] ELSE op

\* variant: the upper bound is not tested
invalidOpacityNoUpper(op) == op.kind = "NaN" \/ op.num < 0

\* isNaN(opacity) || opacity > 1 || opacity < 0
invalidOpacity(op) == op.kind = "NaN" \/ op.num > OpacityDen \/ op.num < 0

alpha(c, op) ==
    IF invalidOpacity(defaultOpacity(op))
    THEN c
    ELSE c \o padSlice(decToHex(roundAlpha(defaultOpacity(op).num)))

ColorsInit ==
    /\ color \in ColorInputs
    /\ opacity \in OpacityInputs
    /\ alphaResult = << >>

ColorsIdle ==
    /\ color = white
    /\ opacity = [kind |-> "undefined", num |-> 0]
    /\ alphaResult = << >>

CallAlpha ==
    /\ alphaResult = << >>
    /\ alphaResult' = <<alpha(color, opacity)>>
    /\ UNCHANGED <<color, opacity, tourVars, cardVars>>

----------------------------------------------------------------------------
(* Card *)

CardChildTypes == {"CardImage", "CardSection"}
BorderRadii == {<< >>, <<12>>}

\* variant: the last child is looked for one index too far
calcImagePositionOffByOne(r, ch, i) ==
    LET childrenCount == Len(ch)
    IN (IF i = 0 THEN <<IF r THEN "left" ELSE "top">> ELSE << >>)
         \o (IF i = childrenCount THEN <<IF r THEN "right" ELSE "bottom">> ELSE << >>)

\* childIndex is the zero-based index React.Children.map passes
calcImagePosition(r, ch, i) ==
    LET childrenCount == Len(ch)
    IN (IF i = 0 THEN <<IF r THEN "left" ELSE "top">> ELSE << >>)
         \o (IF i = childrenCount - 1 THEN <<IF r THEN "right" ELSE "bottom">> ELSE << >>)

renderChildren(r, br, ch) ==
    [k \in 1..Len(ch) |->
        IF ch[k] = "CardImage"
        THEN [type |-> ch[k], key |-> <<k - 1>>,
              position |-> <<calcImagePosition(r, ch, k - 1)>>, borderRadius |-> br]
        ELSE [type |-> ch[k], key |-> << >>, position |-> << >>, borderRadius |-> << >>]]

CardInit ==
    /\ row \in BOOLEAN
    /\ borderRadius \in BorderRadii
    /\ cardChildren \in SeqsUpTo(CardChildTypes, MaxCardChildren)
    /\ childIndex = << >>
    /\ position = << >>
    /\ renderedChildren = << >>

CardIdle ==
    /\ row = FALSE
    /\ borderRadius = << >>
    /\ cardChildren = << >>
    /\ childIndex = << >>
    /\ position = << >>
    /\ renderedChildren = << >>

CalcImagePosition(i) ==
    /\ childIndex' = <<i>>
    /\ position' = <<calcImagePosition(row, cardChildren, i)>>
    /\ UNCHANGED <<row, borderRadius, cardChildren, renderedChildren, tourVars, colorVars>>

RenderChildren ==
    /\ renderedChildren = << >>
    /\ renderedChildren' = <<renderChildren(row, borderRadius, cardChildren)>>
    /\ UNCHANGED <<row, borderRadius, cardChildren, childIndex, position, tourVars, colorVars>>

----------------------------------------------------------------------------
(* Specifications *)

Init == TourInit /\ ColorsIdle /\ CardIdle

Next ==
    \/ Mount
    \/ \E v \in BOOLEAN : SetVisible(v)
    \/ onTargetLayout
    \/ \E x \in Lefts, y \in Tops, width \in Widths, height \in Heights :
          MeasureCallback(x, y, width, height)
    \/ \E x \in Lefts, y \in Tops, width \in Widths, height \in Heights :
          LateMeasureCallback(x, y, width, height)
    \/ Unmount

Spec == Init /\ [][Next]_vars

InitColors == TourIdle /\ ColorsInit /\ CardIdle

NextColors == CallAlpha

SpecColors == InitColors /\ [][NextColors]_vars

InitCard == TourIdle /\ ColorsIdle /\ CardInit

NextCard ==
    \/ \E i \in 0..(Len(cardChildren) - 1) : CalcImagePosition(i)
    \/ RenderChildren

SpecCard == InitCard /\ [][NextCard]_vars

----------------------------------------------------------------------------
(* Properties of the Tour *)

Shown == Len(tree.overlay) = 1

Measured == targetPosition # << >>

\* C1: on a mounted Tour the overlay is shown (the Modal is visible and the
\* overlay content is rendered) exactly when visible is true and a measurement
\* is stored; a stored zero-size box counts as a measurement.
C1_OverlayIffVisibleAndMeasured ==
    lifecycle = "mounted" =>
        /\ tree.modalVisible = (visible /\ Measured)
        /\ Shown = (visible /\ Measured)

C1_Witness ==
    /\ lifecycle = "mounted"
    /\ visible
    /\ Measured
    /\ targetPosition[1].width = 0
    /\ targetPosition[1].height = 0
    /\ tree.modalVisible
    /\ Shown

\* C2: a step that changes visible leaves the stored box untouched and asks
\* for no measurement, and if it makes visible true while a box is stored the
\* overlay is shown at that box.
C2_ToggleKeepsMeasurement ==
    [][visible' # visible =>
          /\ targetPosition' = targetPosition
          /\ pending' = pending
          /\ lastMeasure' = lastMeasure
          /\ (visible' /\ Measured =>
                /\ tree'.modalVisible
                /\ Len(tree'.overlay) = 1
                /\ tree'.overlay[1].top = targetPosition[1].top
                /\ tree'.overlay[1].left = targetPosition[1].left)]_vars

C2_Witness ==
    /\ lifecycle = "mounted"
    /\ togglesSinceMeasure >= 2
    /\ visible
    /\ Measured
    /\ Shown

\* the box that the arguments of the latest measurement callback describe
LastBox ==
    IF lastMeasure = << >> THEN << >>
    ELSE <<[left |-> lastMeasure[1][1], top |-> lastMeasure[1][2],
            width |-> lastMeasure[1][3], height |-> lastMeasure[1][4]]>>

\* C3: until the Tour is unmounted the stored box is absent exactly when no
\* measurement callback has been delivered, and otherwise equals in all four
\* fields the box of the most recently delivered callback.
C3_StoredBoxIsLatestMeasure ==
    lifecycle # "unmounted" =>
        /\ (targetPosition = << >>) = (lastMeasure = << >>)
        /\ targetPosition = LastBox

C3_Witness ==
    /\ lifecycle = "mounted"
    /\ lastMeasure = <<<<10, 20, 100, 50>>>>
    /\ targetPosition = <<[left |-> 10, top |-> 20, width |-> 100, height |-> 50]>>

\* C4: a measurement callback that fires after the unmount is not applied:
\* no step taken by an unmounted Tour changes the stored box.
C4_LateCallbackNotApplied ==
    [][lifecycle = "unmounted" => targetPosition' = targetPosition]_vars

\* C5: once render has run, it failed with InvalidChildCount exactly when the
\* number of children is not one; a failed render produces no visual tree and
\* a render with one child produces the target.
C5_InvalidChildCount ==
    lifecycle \in {"mounted", "failed"} =>
        /\ (tree.error = "InvalidChildCount") = (Len(children) # 1)
        /\ (lifecycle = "failed") = (Len(children) # 1)
        /\ Len(children) # 1 => tree.target = << >> /\ tree.overlay = << >>
        /\ Len(children) = 1 => Len(tree.target) = 1 /\ tree.target[1].element = children[1]

C5_Witness ==
    /\ lifecycle = "failed"
    /\ Len(children) = 2
    /\ tree.error = "InvalidChildCount"

C7_MessageBottomIsHeight ==
    (lifecycle = "mounted" /\ Shown) =>
        LET B == targetPosition[1]
        IN /\ tree.overlay[1].message.bottom = B.height
           /\ \A x \in Lefts, y \in Tops, w \in Widths :
                 render(visible, children, <<measuredPosition(x, y, w, B.height)>>)
                     .overlay[1].message.bottom = tree.overlay[1].message.bottom

C7_Witness ==
    /\ lifecycle = "mounted"
    /\ Shown
    /\ targetPosition[1].height = 50
    /\ targetPosition[1].top = 20
    /\ tree.overlay[1].message.bottom = 50

\* C8: on a mounted Tour, a measurement callback that delivers the same
\* arguments as the callback before it changes neither the stored box nor the
\* rendered tree.
C8_RepeatedMeasureIdempotent ==
    [][(lifecycle = "mounted" /\ pending' < pending /\ lastMeasure' = lastMeasure) =>
          /\ targetPosition' = targetPosition
          /\ tree' = tree]_vars

C8_Witness ==
    /\ lifecycle = "mounted"
    /\ repeatedMeasure
    /\ visible
    /\ Shown
    /\ targetPosition = LastBox

----------------------------------------------------------------------------
(* Properties of Colors.alpha *)

HexDigitSet == {HexDigits[k] : k \in 1..16}

OutOfRange(op) == op.kind = "number" /\ (op.num > OpacityDen \/ op.num < 0)

\* C9: Colors.alpha always returns a value; for an opacity that is NaN, above
\* 1 or below 0 the value is the input colour, and otherwise it is the input
\* colour followed by two hexadecimal digits.
C9_AlphaIgnoresInvalidOpacity ==
    alphaResult # << >> =>
        LET r == alphaResult[1]
        IN IF opacity.kind = "NaN" \/ OutOfRange(opacity)
           THEN r = color
           ELSE /\ Len(r) = Len(color) + 2
                /\ SubSeq(r, 1, Len(color)) = color
                /\ r[Len(r) - 1] \in HexDigitSet
                /\ r[Len(r)] \in HexDigitSet

C9_Witness ==
    /\ alphaResult # << >>
    /\ opacity.kind = "number"
    /\ opacity.num > OpacityDen
    /\ alphaResult[1] = color

----------------------------------------------------------------------------
(* Properties of the Card *)

LeadingEdge == IF row THEN "left" ELSE "top"

TrailingEdge == IF row THEN "right" ELSE "bottom"

ExpectedPosition(i) ==
    CASE Len(cardChildren) = 1 -> <<LeadingEdge, TrailingEdge>>
      [] Len(cardChildren) # 1 /\ i = 0 -> <<LeadingEdge>>
      [] Len(cardChildren) # 1 /\ i # 0 /\ i = Len(cardChildren) - 1 -> <<TrailingEdge>>
      [] OTHER -> << >>

\* C10: for a Card with n >= 1 children and an index i in 0..n-1,
\* calcImagePosition(i) is the leading edge iff i = 0 followed by the trailing
\* edge iff i = n-1, with edges of the row or of the column only; renderChildren
\* gives every CardImage child that position.
C10_ImagePosition ==
    /\ position # << >> =>
          /\ position[1] = ExpectedPosition(childIndex[1])
          /\ \A k \in 1..Len(position[1]) :
                position[1][k] \in (IF row THEN {"left", "right"} ELSE {"top", "bottom"})
    /\ renderedChildren # << >> =>
          \A k \in 1..Len(cardChildren) :
              cardChildren[k] = "CardImage" =>
                  renderedChildren[1][k].position = <<ExpectedPosition(k - 1)>>

C10_Witness ==
    /\ position = <<<<"left", "right">>>>
    /\ row
    /\ Len(cardChildren) = 1
    /\ childIndex = <<0>>

====
